---- MODULE Spec2Model ----
(***************************************************************************)
(* Model of the WFS feature client (src/src/main.rs) and the WMS tile      *)
(* client (src/src/wms.rs).  One client instance is constructed; NumCalls   *)
(* fetch calls are made on it, concurrently.  Each call is an async fn: it  *)
(* runs to its first await (the transport's send), resumes when the         *)
(* transport answers, checks the status, awaits the body, and decodes.      *)
(* URLs are strings, built with the same concatenations as the code.        *)
(***************************************************************************)
EXTENDS Naturals, Sequences, FiniteSets, TLC

\* Number of fetch calls made on the client during its life.
NumCalls == 2

Calls == 1..NumCalls

VARIABLES
    client,   \* the constructed WfsClient / WmsClient: service, base_url, auth, default headers
    pc,       \* pc[c]: position of call c: "idle", "sending", "reading", "done"
    args,     \* args[c]: the parameters call c was invoked with
    request,  \* request[c]: the request call c handed to the transport (url, headers)
    response, \* response[c]: the response the transport gave call c
    body,     \* body[c]: the body call c read from its response
    result,   \* result[c]: what call c returned to its caller
    sends     \* sends[c]: how many times call c invoked the transport

vars == <<client, pc, args, request, response, body, result, sends>>

----------------------------------------------------------------------------
\* Option<T>
None == [some |-> FALSE]
Some(v) == [some |-> TRUE, v |-> v]

\* enum WfsAuth / enum WmsAuth (the two enums have the same four variants)
Basic(username, password) == [tag |-> "Basic", username |-> username, password |-> password]
BearerToken(token) == [tag |-> "BearerToken", token |-> token]
ApiKey(param_name, key) == [tag |-> "ApiKey", param_name |-> param_name, key |-> key]
Cookie(cookie_str) == [tag |-> "Cookie", cookie_str |-> cookie_str]

\* The auth configurations a client is constructed with.
AuthChoices ==
    { None,
      Some(Basic("user", "pw")),
      Some(BearerToken("tok")),
      Some(ApiKey("api_key", "K1")),
      Some(Cookie("sid=42")) }

\* WfsClient::new: default User-Agent header, base_url and auth stored as given.
WfsClient_new(base_url, auth) ==
    [ service |-> "WFS",
      default_headers |-> {[name |-> "user-agent", value |-> "rust-wfs-client/0.1.0"]},
      base_url |-> base_url,
      auth |-> auth ]

\* WmsClient::new
WmsClient_new(base_url, auth) ==
    [ service |-> "WMS",
      default_headers |-> {[name |-> "user-agent", value |-> "rust-wms-client/0.1.0"]},
      base_url |-> base_url,
      auth |-> auth ]

WfsBase == "http://h/wfs"
WmsBase == "http://h/wms"

Clients ==
    { WfsClient_new(WfsBase, a) : a \in AuthChoices } \cup
    { WmsClient_new(WmsBase, a) : a \in AuthChoices }

----------------------------------------------------------------------------
\* Display of an unsigned integer ({} on a u32): its decimal digits.
Digit(d) ==
    CASE d = 0 -> "0" [] d = 1 -> "1" [] d = 2 -> "2" [] d = 3 -> "3" [] d = 4 -> "4"
      [] d = 5 -> "5" [] d = 6 -> "6" [] d = 7 -> "7" [] d = 8 -> "8" [] d = 9 -> "9"

RECURSIVE ToDecimal(_)
ToDecimal(n) == IF n < 10 THEN Digit(n) ELSE ToDecimal(n \div 10) \o Digit(n % 10)

\* Display of a bool
BoolText(b) == IF b THEN "true" ELSE "false"

\* The parameters of the fetch_features calls: layer_name, bbox, max_features.
FeatureArgs ==
    [ op : {"fetch_features"},
      layer_name : {"roads"},
      bbox : {None, Some(""), Some("1,2,3,4")},
      max_features : {None, Some(0), Some(10)} ]

\* The parameters of the fetch_map_tile calls.
TileArgs ==
    [ op : {"fetch_map_tile"},
      layers : {"temp"},
      bbox : {"1,2,3,4"},
      width : {256},
      height : {128},
      srs : {"EPSG:25832"},
      format : {"image/png"},
      transparent : BOOLEAN ]

\* FeatureUrl with the two optional parameters pushed in the other order.
FeatureUrl_countFirst(base_url, a) ==
    LET url0 == base_url \o "?service=WFS&version=2.0.0&request=GetFeature&typeName="
                         \o a.layer_name \o "&outputFormat=GEOJSON&srsname=EPSG:25832"
        url1 == IF a.max_features.some
                THEN url0 \o "&count=" \o ToDecimal(a.max_features.v)
                ELSE url0
        url2 == IF a.bbox.some THEN url1 \o "&bbox=" \o a.bbox.v ELSE url1
    IN  url2

\* fetch_features, URL construction: the format! and the two push_str.
FeatureUrl(base_url, a) ==
    LET url0 == base_url \o "?service=WFS&version=2.0.0&request=GetFeature&typeName="
                         \o a.layer_name \o "&outputFormat=GEOJSON&srsname=EPSG:25832"
        url1 == IF a.bbox.some THEN url0 \o "&bbox=" \o a.bbox.v ELSE url0
        url2 == IF a.max_features.some
                THEN url1 \o "&count=" \o ToDecimal(a.max_features.v)
                ELSE url1
    IN  url2

\* fetch_map_tile, URL construction: one format! with every parameter.
TileUrl(base_url, a) ==
    base_url \o "?SERVICE=WMS&VERSION=1.3.0&REQUEST=GetMap&LAYERS=" \o a.layers
             \o "&BBOX=" \o a.bbox
             \o "&WIDTH=" \o ToDecimal(a.width)
             \o "&HEIGHT=" \o ToDecimal(a.height)
             \o "&CRS=" \o a.srs
             \o "&FORMAT=" \o a.format
             \o "&TRANSPARENT=" \o BoolText(a.transparent)
             \o "&styles=default"

\* ApplyApiKey that leaves the key to the request decoration, where no arm adds it.
ApplyApiKey_dropped(url, auth) == url

\* ApplyApiKey that appends a credential for every configured auth.
ApplyApiKey_anyAuth(url, auth) ==
    IF ~auth.some THEN url
    ELSE CASE auth.v.tag = "ApiKey" -> url \o "&" \o auth.v.param_name \o "=" \o auth.v.key
           [] auth.v.tag = "BearerToken" -> url \o "&token=" \o auth.v.token
           [] auth.v.tag = "Cookie" -> url \o "&cookie=" \o auth.v.cookie_str
           [] auth.v.tag = "Basic" -> url \o "&user=" \o auth.v.username

\* final_url: the API key, when the auth is ApiKey, is appended to the URL.
ApplyApiKey(url, auth) ==
    IF auth.some /\ auth.v.tag = "ApiKey"
    THEN url \o "&" \o auth.v.param_name \o "=" \o auth.v.key
    ELSE url

\* The match on the auth: the headers the request builder adds.
\* basic_auth / bearer_auth set Authorization, header(COOKIE, ..) sets Cookie.
AuthHeaders(auth) ==
    IF ~auth.some THEN {}
    ELSE CASE auth.v.tag = "Basic" ->
                {[name |-> "authorization", scheme |-> "Basic",
                  username |-> auth.v.username, password |-> auth.v.password]}
           [] auth.v.tag = "BearerToken" ->
                {[name |-> "authorization", scheme |-> "Bearer", token |-> auth.v.token]}
           [] auth.v.tag = "Cookie" ->
                {[name |-> "cookie", value |-> auth.v.cookie_str]}
           [] auth.v.tag = "ApiKey" -> {}

\* self.client.get(&final_url) and the decoration: the request handed to send().
BuildRequest(cl, a) ==
    LET url == IF a.op = "fetch_features"
               THEN FeatureUrl(cl.base_url, a)
               ELSE TileUrl(cl.base_url, a)
        final_url == ApplyApiKey(url, cl.auth)
    IN  [ method |-> "GET",
          url |-> final_url,
          headers |-> cl.default_headers \cup AuthHeaders(cl.auth) ]

----------------------------------------------------------------------------
\* What the server can answer.  A response carries its status, the payload the
\* server put in it, and the URL it answers (Response::url).
Statuses == {200, 404, 500}

\* is_success that only takes server errors for failures.
is_success_not5xx(status) == status < 500

\* StatusCode::is_success: 200..=299
is_success(status) == status >= 200 /\ status < 300

\* Display of a StatusCode: the code and its canonical reason.
StatusText(status) ==
    CASE status = 200 -> "200 OK"
      [] status = 404 -> "404 Not Found"
      [] status = 500 -> "500 Internal Server Error"

PointBody == "{\"type\":\"Point\",\"coordinates\":[1,2]}"
EmptyCollectionBody == "{\"type\":\"FeatureCollection\",\"features\":[]}"
MalformedBody == "{\"type\":"

\* Payloads of WFS responses (text) and of WMS responses (bytes).
Payloads(service) ==
    IF service = "WFS"
    THEN {PointBody, EmptyCollectionBody, MalformedBody}
    ELSE {<<137, 80, 78, 71>>, <<>>}

\* Box<dyn Error> values, by the concrete error under the box.
ReqwestError(stage) == [tag |-> "Err", type |-> "reqwest::Error", stage |-> stage]
StringError(msg) == [tag |-> "Err", type |-> "String", msg |-> msg]
GeozeroError(msg) == [tag |-> "Err", type |-> "GeozeroError", msg |-> msg]
Ok(v) == [tag |-> "Ok", value |-> v]

\* GeoJsonString(body).to_geo() (geozero): the geometry of the document, an
\* error when the text is not GeoJSON ("GeoJSON parse error") or when the
\* document holds no geometry ("Missing Geometry").
to_geo(text) ==
    IF text = PointBody THEN Ok([type |-> "Point", coordinates |-> <<1, 2>>])
    ELSE IF text = EmptyCollectionBody THEN GeozeroError("Missing Geometry")
    ELSE GeozeroError("GeoJSON parse error")

\* The status check of fetch_features: the error returned, None when it passes.
WfsStatusCheck(status) ==
    IF ~is_success(status)
    THEN Some(StringError("WFS request failed with status: " \o StatusText(status)))
    ELSE None

\* The status check of fetch_map_tile.
WmsStatusCheck(status) ==
    IF ~is_success(status)
    THEN Some(StringError("WMS request failed with status: " \o StatusText(status)))
    ELSE None

\* DecodeFeatures that falls back to an empty Vec when the conversion fails.
DecodeFeatures_lenient(text) ==
    LET geometries == to_geo(text)
    IN  IF geometries.tag = "Err" THEN Ok(<<>>) ELSE Ok(<<geometries.value>>)

\* Lines 109-114 of fetch_features: parse, convert, wrap in a one-element Vec.
DecodeFeatures(text) ==
    LET geometries == to_geo(text)
    IN  IF geometries.tag = "Err" THEN geometries ELSE Ok(<<geometries.value>>)

----------------------------------------------------------------------------
Init ==
    /\ client \in Clients
    /\ pc = [c \in Calls |-> "idle"]
    /\ args = [c \in Calls |-> None]
    /\ request = [c \in Calls |-> None]
    /\ response = [c \in Calls |-> None]
    /\ body = [c \in Calls |-> None]
    /\ result = [c \in Calls |-> None]
    /\ sends = [c \in Calls |-> 0]

\* Send through one request slot of the client, shared by the calls in flight.
Send_shared(c, req) ==
    /\ request' = [d \in Calls |->
                     IF d = c \/ pc[d] = "sending" THEN Some(req) ELSE request[d]]
    /\ sends' = [sends EXCEPT ![c] = @ + 1]

\* The transport takes the request of call c: request.send() is polled.
Send(c, req) ==
    /\ request' = [request EXCEPT ![c] = Some(req)]
    /\ sends' = [sends EXCEPT ![c] = @ + 1]

\* The call returns r to its caller.
Return(c, r) ==
    /\ result' = [result EXCEPT ![c] = Some(r)]
    /\ pc' = [pc EXCEPT ![c] = "done"]

\* fetch_features_start that moves the auth out of the client (self.auth.take()).
fetch_features_start_takesAuth(c) ==
    /\ client.service = "WFS"
    /\ pc[c] = "idle"
    /\ \E a \in FeatureArgs :
          /\ args' = [args EXCEPT ![c] = Some(a)]
          /\ Send(c, BuildRequest(client, a))
    /\ client' = [client EXCEPT !.auth = None]
    /\ pc' = [pc EXCEPT ![c] = "sending"]
    /\ UNCHANGED <<response, body, result>>

\* fetch_features up to its first await: build the URL and the request, send it.
fetch_features_start(c) ==
    /\ client.service = "WFS"
    /\ pc[c] = "idle"
    /\ \E a \in FeatureArgs :
          /\ args' = [args EXCEPT ![c] = Some(a)]
          /\ Send(c, BuildRequest(client, a))
    /\ pc' = [pc EXCEPT ![c] = "sending"]
    /\ UNCHANGED <<client, response, body, result>>

\* fetch_map_tile up to its first await.
fetch_map_tile_start(c) ==
    /\ client.service = "WMS"
    /\ pc[c] = "idle"
    /\ \E a \in TileArgs :
          /\ args' = [args EXCEPT ![c] = Some(a)]
          /\ Send(c, BuildRequest(client, a))
    /\ pc' = [pc EXCEPT ![c] = "sending"]
    /\ UNCHANGED <<client, response, body, result>>

\* send().await of fetch_features fails: the ? returns the transport's error.
fetch_features_send_err(c) ==
    /\ client.service = "WFS"
    /\ pc[c] = "sending"
    /\ Return(c, ReqwestError("send"))
    /\ UNCHANGED <<client, args, request, response, body, sends>>

\* fetch_features_sent that sends the request again after a failed status.
fetch_features_sent_retry(c) ==
    /\ client.service = "WFS"
    /\ pc[c] = "sending"
    /\ \E status \in Statuses, payload \in Payloads("WFS") :
          /\ response' = [response EXCEPT ![c] =
                Some([status |-> status, payload |-> payload, url |-> request[c].v.url])]
          /\ LET failed == WfsStatusCheck(status)
             IN  IF failed.some
                 THEN IF sends[c] < 3
                      THEN /\ sends' = [sends EXCEPT ![c] = @ + 1]
                           /\ UNCHANGED <<pc, result>>
                      ELSE /\ Return(c, failed.v)
                           /\ UNCHANGED sends
                 ELSE /\ pc' = [pc EXCEPT ![c] = "reading"]
                      /\ UNCHANGED <<result, sends>>
    /\ UNCHANGED <<client, args, request, body>>

\* send().await of fetch_features yields a response: the status check, then
\* response.text() is awaited.
fetch_features_sent(c) ==
    /\ client.service = "WFS"
    /\ pc[c] = "sending"
    /\ \E status \in Statuses, payload \in Payloads("WFS") :
          /\ response' = [response EXCEPT ![c] =
                Some([status |-> status, payload |-> payload, url |-> request[c].v.url])]
          /\ LET failed == WfsStatusCheck(status)
             IN  IF failed.some
                 THEN Return(c, failed.v)
                 ELSE /\ pc' = [pc EXCEPT ![c] = "reading"]
                      /\ UNCHANGED result
    /\ UNCHANGED <<client, args, request, body, sends>>

\* response.text().await of fetch_features completes: an error of the transport,
\* or the text, which is decoded.
fetch_features_body(c) ==
    /\ client.service = "WFS"
    /\ pc[c] = "reading"
    /\ \/ /\ Return(c, ReqwestError("body"))
          /\ UNCHANGED body
       \/ /\ body' = [body EXCEPT ![c] = Some(response[c].v.payload)]
          /\ Return(c, DecodeFeatures(response[c].v.payload))
    /\ UNCHANGED <<client, args, request, response, sends>>

\* send().await of fetch_map_tile fails.
fetch_map_tile_send_err(c) ==
    /\ client.service = "WMS"
    /\ pc[c] = "sending"
    /\ Return(c, ReqwestError("send"))
    /\ UNCHANGED <<client, args, request, response, body, sends>>

\* send().await of fetch_map_tile yields a response: the status check, then
\* response.bytes() is awaited.
fetch_map_tile_sent(c) ==
    /\ client.service = "WMS"
    /\ pc[c] = "sending"
    /\ \E status \in Statuses, payload \in Payloads("WMS") :
          /\ response' = [response EXCEPT ![c] =
                Some([status |-> status, payload |-> payload, url |-> request[c].v.url])]
          /\ LET failed == WmsStatusCheck(status)
             IN  IF failed.some
                 THEN Return(c, failed.v)
                 ELSE /\ pc' = [pc EXCEPT ![c] = "reading"]
                      /\ UNCHANGED result
    /\ UNCHANGED <<client, args, request, body, sends>>

\* response.bytes().await of fetch_map_tile completes: the bytes are returned as read.
fetch_map_tile_body(c) ==
    /\ client.service = "WMS"
    /\ pc[c] = "reading"
    /\ \/ /\ Return(c, ReqwestError("body"))
          /\ UNCHANGED body
       \/ /\ body' = [body EXCEPT ![c] = Some(response[c].v.payload)]
          /\ Return(c, Ok(response[c].v.payload))
    /\ UNCHANGED <<client, args, request, response, sends>>

Next ==
    \E c \in Calls :
        \/ fetch_features_start(c)
        \/ fetch_features_send_err(c)
        \/ fetch_features_sent(c)
        \/ fetch_features_body(c)
        \/ fetch_map_tile_start(c)
        \/ fetch_map_tile_send_err(c)
        \/ fetch_map_tile_sent(c)
        \/ fetch_map_tile_body(c)

Spec == Init /\ [][Next]_vars

\* A call whose response has arrived is polled again by the executor, and the
\* read of its body completes or fails.
Fairness ==
    \A c \in Calls : WF_vars(fetch_features_body(c) \/ fetch_map_tile_body(c))

FairSpec == Spec /\ Fairness

----------------------------------------------------------------------------
\* Helpers of the properties.

EndsWith(s, t) == Len(s) >= Len(t) /\ SubSeq(s, Len(s) - Len(t) + 1, Len(s)) = t

Contains(s, t) ==
    \E i \in 1..(Len(s) + 1) : i + Len(t) - 1 <= Len(s) /\ SubSeq(s, i, i + Len(t) - 1) = t

\* "?p1&p2&...": the query string made of the parameters ps, in their order.
RECURSIVE JoinParams(_)
JoinParams(ps) ==
    IF ps = <<>> THEN ""
    ELSE IF Len(ps) = 1 THEN "?" \o ps[1]
    ELSE JoinParams(SubSeq(ps, 1, Len(ps) - 1)) \o "&" \o ps[Len(ps)]

\* The decimal text of the feature counts the calls use.
CountText(n) == CASE n = 0 -> "0" [] n = 10 -> "10"

\* The calls that have handed a request to the transport.
Sent == {c \in Calls : request[c].some}

IsApiKey(auth) == auth.some /\ auth.v.tag = "ApiKey"
IsHeaderAuth(auth) == auth.some /\ auth.v.tag \in {"Basic", "BearerToken", "Cookie"}

\* The error kinds of the specification, from the concrete error a call returned.
ErrorKind(r) ==
    CASE r.type = "reqwest::Error" -> "TransportError"
      [] r.type = "String" -> "RequestFailed"
      [] r.type = "GeozeroError" -> "DecodeFailed"

----------------------------------------------------------------------------
\* C1: the URL fetch_features hands to the transport is the base URL, then the
\* fixed parameters service, version, request, typeName, outputFormat, srsname in
\* that order, then bbox iff a bbox was supplied, then count iff a count was
\* supplied, then the API-key parameter iff the auth is ApiKey.
C1_FeatureUrlShape ==
    \A c \in Sent :
        args[c].v.op = "fetch_features" =>
            LET a == args[c].v
                fixed == << "service=WFS", "version=2.0.0", "request=GetFeature",
                            "typeName=" \o a.layer_name, "outputFormat=GEOJSON",
                            "srsname=EPSG:25832" >>
                withBbox == IF a.bbox.some
                            THEN Append(fixed, "bbox=" \o a.bbox.v) ELSE fixed
                withCount == IF a.max_features.some
                             THEN Append(withBbox, "count=" \o CountText(a.max_features.v))
                             ELSE withBbox
                withKey == IF IsApiKey(client.auth)
                           THEN Append(withCount,
                                       client.auth.v.param_name \o "=" \o client.auth.v.key)
                           ELSE withCount
            IN  request[c].v.url = client.base_url \o JoinParams(withKey)

\* A feature request with a bbox, a count and an API key was sent.
C1_Witness ==
    \E c \in Sent :
        /\ args[c].v.op = "fetch_features"
        /\ args[c].v.bbox = Some("1,2,3,4")
        /\ args[c].v.max_features = Some(10)
        /\ IsApiKey(client.auth)
        /\ request[c].v.url = "http://h/wfs?service=WFS&version=2.0.0&request=GetFeature&typeName=roads&outputFormat=GEOJSON&srsname=EPSG:25832&bbox=1,2,3,4&count=10&api_key=K1"

\* C2: a response with a non-success status ends the call with the status error
\* carrying that status, whatever the payload; the body is read only after the
\* status check passed.
C2_StatusFailure ==
    \A c \in Calls :
        /\ (response[c].some /\ response[c].v.status \notin 200..299) =>
              /\ pc[c] = "done"
              /\ result[c].some /\ result[c].v.tag = "Err"
              /\ ErrorKind(result[c].v) = "RequestFailed"
              /\ {s \in Statuses : Contains(result[c].v.msg, ToDecimal(s))}
                    = {response[c].v.status}
              /\ body[c] = None
        /\ (pc[c] = "reading" \/ body[c].some) =>
              (response[c].some /\ response[c].v.status \in 200..299)

\* A 404 and a 500 were answered with a decodable payload and ended as status errors.
C2_Witness ==
    \E c, d \in Calls :
        /\ pc[c] = "done" /\ pc[d] = "done"
        /\ response[c].some /\ response[c].v.status = 404
        /\ response[d].some /\ response[d].v.status = 500
        /\ client.service = "WFS" => response[c].v.payload = PointBody
        /\ ErrorKind(result[c].v) = "RequestFailed"
        /\ ErrorKind(result[d].v) = "RequestFailed"
        /\ body[c] = None /\ body[d] = None

\* C3: with ApiKey auth, every request has "&param_name=key" as the last query
\* parameter of its URL and carries no authentication header.
C3_ApiKeyInUrl ==
    \A c \in Sent :
        IsApiKey(client.auth) =>
            /\ EndsWith(request[c].v.url,
                        "&" \o client.auth.v.param_name \o "=" \o client.auth.v.key)
            /\ \A h \in request[c].v.headers : h.name \notin {"authorization", "cookie"}

\* An API-key client sent a feature request with both optional parameters, or a tile request.
C3_Witness ==
    \E c \in Sent :
        /\ IsApiKey(client.auth)
        /\ EndsWith(request[c].v.url, "&api_key=K1")
        /\ \/ args[c].v.op = "fetch_map_tile"
           \/ /\ args[c].v.op = "fetch_features"
              /\ args[c].v.bbox.some /\ args[c].v.max_features.some

\* The header the specification asks for a header-based auth.
ExpectedHeader(a) ==
    CASE a.tag = "Basic" -> [name |-> "authorization", scheme |-> "Basic",
                             username |-> a.username, password |-> a.password]
      [] a.tag = "BearerToken" -> [name |-> "authorization", scheme |-> "Bearer",
                                   token |-> a.token]
      [] a.tag = "Cookie" -> [name |-> "cookie", value |-> a.cookie_str]

\* C4: with Basic, BearerToken or Cookie auth, every request carries the matching
\* header and its URL is the URL the same call produces on a client without auth.
C4_HeaderAuthKeepsUrl ==
    \A c \in Sent :
        IsHeaderAuth(client.auth) =>
            /\ ExpectedHeader(client.auth.v) \in request[c].v.headers
            /\ request[c].v.url = BuildRequest([client EXCEPT !.auth = None], args[c].v).url

\* A client with a Cookie auth sent a request carrying the cookie.
C4_Witness ==
    \E c \in Sent :
        /\ client.auth = Some(Cookie("sid=42"))
        /\ [name |-> "cookie", value |-> "sid=42"] \in request[c].v.headers
        /\ ~Contains(request[c].v.url, "sid=42")

\* What a call returns for the response it was given: the result or error of
\* its own transaction.
OwnOutcomes(c) ==
    IF ~response[c].some THEN {ReqwestError("send")}
    ELSE IF response[c].v.status \notin 200..299
    THEN {r \in {result[c].v} :
            /\ r.tag = "Err" /\ r.type = "String"
            /\ Contains(r.msg, ToDecimal(response[c].v.status))}
    ELSE IF ~body[c].some THEN {ReqwestError("body")}
    ELSE IF args[c].v.op = "fetch_map_tile" THEN {Ok(response[c].v.payload)}
    ELSE IF response[c].v.payload = PointBody
    THEN {Ok(<<[type |-> "Point", coordinates |-> <<1, 2>>]>>)}
    ELSE {r \in {result[c].v} : r.tag = "Err" /\ r.type = "GeozeroError"}

\* C5: under every interleaving of concurrent calls on one client, each call
\* sends the request built from its own parameters, is answered for its own URL,
\* reads its own payload and returns the outcome of its own response.
C5_NoInterference ==
    \A c \in Calls :
        /\ request[c].some =>
              /\ args[c].some
              /\ request[c].v = BuildRequest(client, args[c].v)
        /\ response[c].some => response[c].v.url = request[c].v.url
        /\ body[c].some => body[c].v = response[c].v.payload
        /\ pc[c] = "done" => result[c].v \in OwnOutcomes(c)

\* Two calls with different parameters overlapped and got different outcomes.
C5_Witness ==
    \E c, d \in Calls :
        /\ c # d
        /\ pc[c] = "done" /\ pc[d] = "reading"
        /\ response[c].some /\ response[d].some
        /\ args[c].v # args[d].v
        /\ request[c].v.url # request[d].v.url
        /\ response[c].v.status = 404
        /\ result[c].v.tag = "Err"
        /\ response[d].v.status = 200

\* C6: fetch_features with a count of zero is rejected before any request is
\* sent: the transport is not invoked and no URL with count=0 is sent.
C6_ZeroCountRejected ==
    \A c \in Calls :
        (args[c].some /\ args[c].v.op = "fetch_features"
            /\ args[c].v.max_features = Some(0)) =>
                /\ sends[c] = 0
                /\ ~request[c].some

\* C7: fetch_features with an empty bbox sends the URL of the call without a
\* bbox; no URL with an empty bbox parameter is sent.
C7_EmptyBboxOmitted ==
    \A c \in Sent :
        (args[c].v.op = "fetch_features" /\ args[c].v.bbox = Some("")) =>
            /\ request[c].v.url =
                  BuildRequest(client, [args[c].v EXCEPT !.bbox = None]).url
            /\ ~Contains(request[c].v.url, "&bbox=&")
            /\ ~EndsWith(request[c].v.url, "&bbox=")

\* C8: in fetch_features a success response whose body is not GeoJSON, or holds
\* no geometry, ends the call with the decode error, not with a geometry
\* sequence and not with the errors of the transport or of the status.
C8_DecodeFailure ==
    \A c \in Calls :
        (/\ pc[c] = "done"
         /\ args[c].v.op = "fetch_features"
         /\ response[c].some /\ response[c].v.status \in 200..299
         /\ body[c].some /\ body[c].v \in {MalformedBody, EmptyCollectionBody}) =>
            /\ result[c].v.tag = "Err"
            /\ ErrorKind(result[c].v) = "DecodeFailed"

\* A malformed body and a body without geometry were read after a 200.
C8_Witness ==
    \E c, d \in Calls :
        /\ client.service = "WFS"
        /\ pc[c] = "done" /\ pc[d] = "done"
        /\ response[c].some /\ response[d].some
        /\ response[c].v.status = 200 /\ body[c] = Some(MalformedBody)
        /\ response[d].v.status = 200 /\ body[d] = Some(EmptyCollectionBody)
        /\ result[c].v = GeozeroError("GeoJSON parse error")
        /\ result[d].v = GeozeroError("Missing Geometry")

\* The outcome of a finished call, in the words of the specification.
Outcome(r) == IF r.tag = "Ok" THEN "Result" ELSE ErrorKind(r)

\* The state part of C9.
C9_State ==
    \A c \in Calls :
        /\ sends[c] <= 1
        /\ result[c].some <=> pc[c] = "done"
        /\ result[c].some =>
              /\ sends[c] = 1
              /\ Outcome(result[c].v) \in
                    {"Result", "TransportError", "RequestFailed", "DecodeFailed"}
              /\ Outcome(result[c].v) = "Result" <=>
                    /\ response[c].some /\ response[c].v.status \in 200..299
                    /\ body[c].some
                    /\ args[c].v.op = "fetch_features" => body[c].v = PointBody
              /\ Outcome(result[c].v) = "RequestFailed" <=>
                    (response[c].some /\ response[c].v.status \notin 200..299)
              /\ Outcome(result[c].v) = "TransportError" <=>
                    \/ ~response[c].some
                    \/ response[c].v.status \in 200..299 /\ ~body[c].some
              /\ Outcome(result[c].v) = "DecodeFailed" =>
                    args[c].v.op = "fetch_features"

\* The step part of C9: a finished call stays finished, with the result it
\* returned, and the transport is not invoked for it again.
C9_Step ==
    \A c \in Calls :
        pc[c] = "done" =>
            /\ pc'[c] = "done"
            /\ result'[c] = result[c]
            /\ sends'[c] = sends[c]
            /\ request'[c] = request[c]

\* C9: every call invokes the transport at most once and, once the transport has
\* answered, ends in exactly one outcome (the result, TransportError,
\* RequestFailed or DecodeFailed); no request is sent again after a failure and
\* no failure becomes a result.
C9_OneOutcome ==
    /\ [] C9_State
    /\ [][C9_Step]_vars
    /\ \A c \in Calls : (response[c].some) ~> (pc[c] = "done")

\* Calls ended in a result, a status error and a transport error after one send each.
C9_Witness ==
    \E c, d \in Calls :
        /\ pc[c] = "done" /\ pc[d] = "done"
        /\ sends[c] = 1 /\ sends[d] = 1
        /\ Outcome(result[c].v) = "Result"
        /\ Outcome(result[d].v) \in {"RequestFailed", "TransportError"}
        /\ response[d].some => response[d].v.status = 500

\* C10: the client keeps the base URL and the auth it was constructed with
\* through every call, so two calls with the same parameters, made at any two
\* points of its life, send the same URL and the same headers.
C10_ConfigFixed ==
    /\ [][client' = client]_vars
    /\ [](client \in Clients)
    /\ [](\A c, d \in Sent : args[c] = args[d] => request[c] = request[d])

\* A second call with the parameters of a finished, failed one was sent on a
\* client with an auth, with the same request.
C10_Witness ==
    \E c, d \in Calls :
        /\ c # d
        /\ pc[c] = "done" /\ result[c].v.tag = "Err"
        /\ pc[d] = "sending"
        /\ args[c] = args[d]
        /\ request[c] = request[d]
        /\ client.auth.some

====
